---- MODULE Spec2Model ----
(***************************************************************************)
(* Model of the virtual-memory simulator core (pa3.c): TLB, frame          *)
(* allocator, page-fault handler with copy-on-write, process switcher.     *)
(*                                                                         *)
(* Arrays of the C code are indexed from 0; the sequences that model them  *)
(* are indexed from 1, so C's a[i] is a[i + 1] here.  Every loop of the    *)
(* code that runs i = 0 .. N-1 in order is modelled by an operator that    *)
(* visits the indices in that order.                                       *)
(***************************************************************************)
EXTENDS Integers, Sequences, FiniteSets, TLC

(* ---------------- shape of the address space (vm.h) -------------------- *)
NR_PAGEFRAMES == 2
NR_PTES_PER_PAGE == 2
NR_PDES_PER_PAGE == 1
NR_TLB_ENTRIES == 2

ACCESS_READ == 1
ACCESS_WRITE == 2

(* ---------------- bounds of the model ---------------------------------- *)
\* processes ever created (the first one included)
MaxProcs == 3
\* pids the driver passes to switch_process are 0 .. MaxPid
MaxPid == 1
\* calls the driver makes in one run
MaxSteps == 5

\* An unsigned int is kept as its 32-bit pattern read in two's complement, so
\* that the model checker's integers can hold it: -1 stands for 0xFFFFFFFF,
\* and INT_MAX + 1 wraps to INT_MIN exactly as the bit pattern does.
INT_MAX == 2147483647
\* (unsigned int) -1, what alloc_page returns when every frame is taken
NO_PFN == -1

Frames == 0 .. (NR_PAGEFRAMES - 1)
VPNs == 0 .. (NR_PDES_PER_PAGE * NR_PTES_PER_PAGE - 1)
PIDs == 0 .. MaxPid
\* the rw argument of the driver's alloc command: r, w or rw
AllocModes == {ACCESS_READ, ACCESS_WRITE, ACCESS_READ + ACCESS_WRITE}
\* the access of one memory instruction: read or write, never both
AccessModes == {ACCESS_READ, ACCESS_WRITE}

\* C's a & b on the two permission bits
BitAnd(a, b) ==
    ((a % 2) * (b % 2)) + 2 * (((a \div 2) % 2) * ((b \div 2) % 2))

\* C's a | b on the two permission bits
BitOr(a, b) ==
    (IF (a % 2) + (b % 2) > 0 THEN 1 ELSE 0)
    + 2 * (IF ((a \div 2) % 2) + ((b \div 2) % 2) > 0 THEN 1 ELSE 0)

\* unsigned int arithmetic of mapcounts[]
UDec(n) == IF n = (-INT_MAX) - 1 THEN INT_MAX ELSE n - 1
UInc(n) == IF n = INT_MAX THEN (-INT_MAX) - 1 ELSE n + 1
\* the comparison taken as n > 0: a sole owner counts as sharing
UGt1_AtLeastOne(n) == n # 0
\* the unsigned comparison n > 1
UGt1(n) == n > 1 \/ n < 0

(* ---------------- records ---------------------------------------------- *)
ZeroPTE == [valid |-> FALSE, rw |-> 0, pfn |-> 0, private |-> 0]
ZeroTLB == [valid |-> FALSE, rw |-> 0, vpn |-> 0, pfn |-> 0, private |-> 0]

\* a page-table page (struct pte_directory) all of whose bytes are 0
ZeroPD == [j \in 1 .. NR_PTES_PER_PAGE |-> ZeroPTE]
\* the NULL pointer in pagetable.pdes[]
NullPD == << >>
\* struct pagetable after memset 0: every pdes[i] is NULL
EmptyPagetable == [i \in 1 .. NR_PDES_PER_PAGE |-> NullPD]

\* What a malloc'ed page-table page may hold before anything is stored in it.
\* alloc_page does not clear the block, so every entry is indeterminate; the
\* model lets each entry be all zero bytes (a block fresh from the system) or
\* a stale entry left behind in a recycled block.
StalePTE == [valid |-> TRUE, rw |-> 3, pfn |-> 0, private |-> 3]
UninitPTEs == {ZeroPTE, StalePTE}
UninitPDs == [1 .. NR_PTES_PER_PAGE -> UninitPTEs]

VARIABLES
    mapcounts,   \* mapcounts[f]: number of mappings of page frame f
    tlb,         \* tlb[i + 1]: the C tlb[i]
    current,     \* the running process: [id, pid, pagetable]
    processes,   \* the ready queue, head first
    ptbr,        \* id of the process whose pagetable the MMU walks
    nprocs,      \* processes created so far (ids are 0 .. nprocs - 1)
    last,        \* the call that produced this state and what it returned
    history,     \* history[id][vpn]: how the page mapped there came about
    steps        \* calls made so far

vars ==
    << mapcounts, tlb, current, processes, ptbr, nprocs, last, history, steps >>

(* ---------------- page-table indexing ---------------------------------- *)
PdIdx(vpn) == vpn \div NR_PTES_PER_PAGE
PteIdx(vpn) == vpn - PdIdx(vpn) * NR_PTES_PER_PAGE

\* the entry for vpn in pagetable pt; ZeroPTE stands for "no page-table page"
PteOf(pt, vpn) ==
    IF pt[PdIdx(vpn) + 1] = NullPD THEN ZeroPTE
    ELSE pt[PdIdx(vpn) + 1][PteIdx(vpn) + 1]

HasPd(pt, vpn) == pt[PdIdx(vpn) + 1] # NullPD

SetPte(pt, vpn, pte) ==
    [pt EXCEPT ![PdIdx(vpn) + 1] = [@ EXCEPT ![PteIdx(vpn) + 1] = pte]]

(* ---------------- TLB --------------------------------------------------- *)
\* lookup_tlb: the first i with tlb[i].vpn == vpn && (tlb[i].rw & rw)
lookup_tlb(t, vpn, rw) ==
    LET hits == {i \in 1 .. NR_TLB_ENTRIES :
                    t[i].vpn = vpn /\ BitAnd(t[i].rw, rw) # 0}
    IN  IF hits = {} THEN [hit |-> FALSE, pfn |-> 0]
        ELSE LET i == CHOOSE k \in hits : \A m \in hits : k <= m
             IN  [hit |-> TRUE, pfn |-> t[i].pfn]

\* insert_tlb: the scan stops at the first slot that is invalid (taken as the
\* free slot) or that holds vpn (updated in place), whichever comes first
insert_tlb(t, vpn, rw, pfn) ==
    LET stops == {i \in 1 .. NR_TLB_ENTRIES :
                     t[i].valid = FALSE \/ t[i].vpn = vpn}
    IN  IF stops = {} THEN t
        ELSE LET i == CHOOSE k \in stops : \A m \in stops : k <= m
             IN  IF t[i].valid = FALSE
                 THEN [t EXCEPT ![i] = [@ EXCEPT !.valid = TRUE, !.pfn = pfn,
                                                 !.rw = rw, !.vpn = vpn]]
                 ELSE [t EXCEPT ![i] = [@ EXCEPT !.valid = TRUE, !.rw = rw,
                                                 !.pfn = pfn]]

\* the loop of switch_process over the TLB: it clears entries from index 0 and
\* stops at the first entry that is already invalid
flush_tlb(t) ==
    LET holes == {i \in 1 .. NR_TLB_ENTRIES : t[i].valid = FALSE}
        stop == IF holes = {} THEN NR_TLB_ENTRIES + 1
                ELSE CHOOSE k \in holes : \A m \in holes : k <= m
    IN  [i \in 1 .. NR_TLB_ENTRIES |-> IF i < stop THEN ZeroTLB ELSE t[i]]

\* the loop of free_page over the TLB: every valid entry that maps pfn
invalidate_tlb(t, pfn) ==
    [i \in 1 .. NR_TLB_ENTRIES |->
        IF t[i].valid /\ t[i].pfn = pfn
        THEN [t[i] EXCEPT !.valid = FALSE, !.rw = 0, !.pfn = 0]
        ELSE t[i]]

(* ---------------- frame allocator --------------------------------------- *)
\* the largest free pfn taken instead of the smallest
FirstFree_Largest(mc) ==
    IF \E f \in Frames : mc[f] = 0
    THEN CHOOSE f \in Frames : mc[f] = 0 /\ \A g \in Frames : mc[g] = 0 => g <= f
    ELSE NO_PFN

\* the smallest pfn with mapcounts[pfn] == 0, or (unsigned int) -1
FirstFree(mc) ==
    IF \E f \in Frames : mc[f] = 0
    THEN CHOOSE f \in Frames : mc[f] = 0 /\ \A g \in Frames : mc[g] = 0 => f <= g
    ELSE NO_PFN

\* mapcounts[pfn]-- and mapcounts[pfn]++.  A pfn outside the array (NO_PFN
\* stored by a failed copy) makes the C access out of bounds: the store lands
\* outside mapcounts[] and leaves every counter of the array as it was.
\* the decrement left out
DecMap_Forgotten(mc, pfn) == mc
DecMap(mc, pfn) == IF pfn \in Frames THEN [mc EXCEPT ![pfn] = UDec(@)] ELSE mc
IncMap(mc, pfn) == IF pfn \in Frames THEN [mc EXCEPT ![pfn] = UInc(@)] ELSE mc

\* alloc_page on pagetable pt; fresh is what malloc hands out when the
\* page-table page for vpn does not exist yet
alloc_page(mc, pt, vpn, rw, fresh) ==
    LET pfn == FirstFree(mc)
    IN  IF pfn = NO_PFN
        THEN [ret |-> NO_PFN, mc |-> mc, pt |-> pt]
        ELSE LET pt1 == IF HasPd(pt, vpn) THEN pt
                        ELSE [pt EXCEPT ![PdIdx(vpn) + 1] = fresh]
                 pte == [PteOf(pt1, vpn) EXCEPT
                            !.valid = TRUE, !.rw = rw, !.pfn = pfn]
             IN  [ret |-> pfn,
                  mc  |-> [mc EXCEPT ![pfn] = 1],
                  pt  |-> SetPte(pt1, vpn, pte)]

\* free_page without the test of pte->valid
free_page_Unchecked(mc, t, pt, vpn) ==
    IF HasPd(pt, vpn)
    THEN LET pte == PteOf(pt, vpn)
         IN  [mc  |-> DecMap(mc, pte.pfn),
              tlb |-> invalidate_tlb(t, pte.pfn),
              pt  |-> SetPte(pt, vpn,
                         [pte EXCEPT !.valid = FALSE, !.rw = 0, !.pfn = 0])]
    ELSE [mc |-> mc, tlb |-> t, pt |-> pt]

\* free_page on pagetable pt
free_page(mc, t, pt, vpn) ==
    IF HasPd(pt, vpn) /\ PteOf(pt, vpn).valid
    THEN LET pte == PteOf(pt, vpn)
         IN  [mc  |-> DecMap(mc, pte.pfn),
              tlb |-> invalidate_tlb(t, pte.pfn),
              pt  |-> SetPte(pt, vpn,
                         [pte EXCEPT !.valid = FALSE, !.rw = 0, !.pfn = 0])]
    ELSE [mc |-> mc, tlb |-> t, pt |-> pt]

(* ---------------- page-fault handler ------------------------------------ *)
\* what the test mapcounts[pte->pfn] > 1 can yield: the comparison itself for
\* a frame of the array, either answer for an out-of-bounds read
SharedOutcomes(mc, pfn) ==
    IF pfn \in Frames THEN {UGt1(mc[pfn])} ELSE BOOLEAN

\* handle_page_fault on pagetable pt; shared is the outcome of the test
\* mapcounts[pte->pfn] > 1.  The page-table page is created (zeroed) first
\* and stays whatever the handler returns.
handle_page_fault(mc, pt, vpn, rw, shared) ==
    LET pt1 == IF HasPd(pt, vpn) THEN pt
               ELSE [pt EXCEPT ![PdIdx(vpn) + 1] = ZeroPD]
        pte == PteOf(pt1, vpn)
    IN  IF ~ pte.valid
        THEN LET a == alloc_page(mc, pt1, vpn, rw, ZeroPD)
             IN  [ret |-> (a.ret # NO_PFN), mc |-> a.mc, pt |-> a.pt,
                  path |-> IF a.ret # NO_PFN THEN "first_touch" ELSE "oom"]
        ELSE IF pte.rw # rw /\ BitAnd(rw, ACCESS_WRITE) # 0
        THEN IF BitAnd(pte.rw, ACCESS_READ) # 0
                /\ BitAnd(pte.private, ACCESS_WRITE) # 0
             THEN IF shared
                  THEN LET old_pfn == pte.pfn
                           a == alloc_page(mc, pt1, vpn, 3, ZeroPD)
                           p2 == PteOf(a.pt, vpn)
                       IN  [ret |-> TRUE,
                            mc  |-> DecMap(a.mc, old_pfn),
                            pt  |-> SetPte(a.pt, vpn,
                                      [p2 EXCEPT
                                         !.rw = BitOr(p2.rw, ACCESS_WRITE),
                                         !.pfn = a.ret]),
                            path |-> IF a.ret # NO_PFN THEN "cow_copy"
                                     ELSE "cow_copy_oom"]
                  ELSE [ret |-> TRUE, mc |-> mc,
                        pt  |-> SetPte(pt1, vpn,
                                  [pte EXCEPT
                                     !.rw = BitOr(pte.rw, ACCESS_WRITE)]),
                        path |-> "cow_upgrade"]
             ELSE [ret |-> FALSE, mc |-> mc, pt |-> pt1, path |-> "violation"]
        ELSE [ret |-> TRUE, mc |-> mc, pt |-> pt1, path |-> "nothing"]

(* ---------------- process switcher -------------------------------------- *)
\* the search that never finds the process
FindReady_Never(q, pid) == 0

\* the search that keeps going and returns the last process with this pid
FindReady_Last(q, pid) ==
    LET found == {i \in 1 .. Len(q) : q[i].pid = pid}
    IN  IF found = {} THEN 0
        ELSE CHOOSE k \in found : \A m \in found : m <= k

\* list_for_each_entry over the ready queue: position of the first process
\* with this pid, 0 when there is none
FindReady(q, pid) ==
    LET found == {i \in 1 .. Len(q) : q[i].pid = pid}
    IN  IF found = {} THEN 0
        ELSE CHOOSE k \in found : \A m \in found : k <= m

\* the process found is left in the queue
Unlink_Nothing(q, i) == q

\* the head of the queue is unlinked, whichever process was found
Unlink_Head(q, i) == [k \in 1 .. (Len(q) - 1) |-> q[k + 1]]

\* list_del_init: the queue without its i-th element
Unlink(q, i) == [k \in 1 .. (Len(q) - 1) |-> IF k < i THEN q[k] ELSE q[k + 1]]

\* the parent's entry after the fork loop has visited it
ForkParentPte(pte) ==
    IF pte.valid
    THEN [pte EXCEPT !.private = IF pte.private = 0 THEN pte.rw ELSE pte.private,
                     !.rw = ACCESS_READ]
    ELSE pte

\* the child's entry: a copy of the parent's entry, then the same bookkeeping
ForkChildPte(pte) ==
    IF pte.valid
    THEN [pte EXCEPT !.valid = TRUE,
                     !.private = IF pte.private = 0 THEN pte.rw ELSE pte.private,
                     !.rw = ACCESS_READ,
                     !.pfn = pte.pfn]
    ELSE pte

ForkParentTable(pt) ==
    [i \in 1 .. NR_PDES_PER_PAGE |->
        IF pt[i] = NullPD THEN NullPD
        ELSE [j \in 1 .. NR_PTES_PER_PAGE |-> ForkParentPte(pt[i][j])]]

ForkChildTable(pt) ==
    [i \in 1 .. NR_PDES_PER_PAGE |->
        IF pt[i] = NullPD THEN NullPD
        ELSE [j \in 1 .. NR_PTES_PER_PAGE |-> ForkChildPte(pt[i][j])]]

\* mapcounts after the fork loop has run from entry vpn on: one ++ for every
\* valid entry of the parent, in the order of the loop
RECURSIVE ForkMapcounts(_, _, _)
ForkMapcounts(mc, pt, vpn) ==
    IF vpn \notin VPNs THEN mc
    ELSE ForkMapcounts(IF PteOf(pt, vpn).valid
                       THEN IncMap(mc, PteOf(pt, vpn).pfn) ELSE mc,
                       pt, vpn + 1)

(* ---------------- the driver's translation path ------------------------- *)
\* the pagetable ptbr points to
ActiveTable ==
    IF current.id = ptbr THEN current.pagetable
    ELSE LET i == CHOOSE k \in 1 .. Len(processes) : processes[k].id = ptbr
         IN  processes[i].pagetable

\* the MMU's walk of the active pagetable: a valid entry whose rw has every
\* bit of the access
Walk(pt, vpn, rw) ==
    LET pte == PteOf(pt, vpn)
    IN  [ok |-> HasPd(pt, vpn) /\ pte.valid /\ BitAnd(pte.rw, rw) = rw,
         pfn |-> pte.pfn]

Call(op, arg, rw, ret, pfn, path) ==
    [op |-> op, arg |-> arg, rw |-> rw, ret |-> ret, pfn |-> pfn, path |-> path]

(* ---------------- bookkeeping for the properties ------------------------ *)
\* history[id][vpn].alloc is the rw of the latest alloc_page that populated
\* the page mapped at vpn (0: none); .forked tells that a fork has forced the
\* entry read-only and no fault has made it writable since.  Neither is read
\* by any operation.
NoHistory == [alloc |-> 0, forked |-> FALSE]
ProcIds == 0 .. (MaxProcs - 1)

\* the history of (current, vpn) after a fault handled along path
FaultHistory(h, path, rw) ==
    IF path = "first_touch" THEN [alloc |-> rw, forked |-> FALSE]
    ELSE IF path = "cow_copy" THEN [alloc |-> 3, forked |-> FALSE]
    ELSE IF path \in {"cow_copy_oom", "cow_upgrade"}
    THEN [h EXCEPT !.forked = FALSE]
    ELSE h

(* ---------------- initial state ----------------------------------------- *)
\* the simulator starts with the init process (pid 0) running, an empty
\* ready queue, every frame free and every TLB entry zero
Init ==
    /\ mapcounts = [f \in Frames |-> 0]
    /\ tlb = [i \in 1 .. NR_TLB_ENTRIES |-> ZeroTLB]
    /\ current = [id |-> 0, pid |-> 0, pagetable |-> EmptyPagetable]
    /\ processes = << >>
    /\ ptbr = 0
    /\ nprocs = 1
    /\ last = Call("init", 0, 0, TRUE, 0, "none")
    /\ history = [id \in ProcIds |-> [v \in VPNs |-> NoHistory]]
    /\ steps = 0

(* ---------------- operations -------------------------------------------- *)
\* the driver's alloc command: alloc_page(vpn, rw) for the running process
AllocPage(vpn, rw) ==
    \E fresh \in (IF HasPd(current.pagetable, vpn) \/ FirstFree(mapcounts) = NO_PFN
                  THEN {ZeroPD} ELSE UninitPDs) :
        LET a == alloc_page(mapcounts, current.pagetable, vpn, rw, fresh)
        IN  /\ mapcounts' = a.mc
            /\ current' = [current EXCEPT !.pagetable = a.pt]
            /\ last' = Call("alloc", vpn, rw, a.ret # NO_PFN, a.ret, "none")
            /\ history' = IF a.ret = NO_PFN THEN history
                          ELSE [history EXCEPT ![current.id][vpn] =
                                   [alloc |-> rw, forked |-> FALSE]]
            /\ UNCHANGED << tlb, processes, ptbr, nprocs >>

\* the driver's free command: free_page(vpn) for the running process
FreePage(vpn) ==
    LET r == free_page(mapcounts, tlb, current.pagetable, vpn)
    IN  /\ mapcounts' = r.mc
        /\ tlb' = r.tlb
        /\ current' = [current EXCEPT !.pagetable = r.pt]
        /\ last' = Call("free", vpn, 0, TRUE, 0,
                        IF PteOf(current.pagetable, vpn).valid
                        THEN "freed" ELSE "nothing")
        /\ history' = IF PteOf(current.pagetable, vpn).valid
                      THEN [history EXCEPT ![current.id][vpn] = NoHistory]
                      ELSE history
        /\ UNCHANGED << processes, ptbr, nprocs >>

\* handle_page_fault(vpn, rw) called on its own
HandlePageFault(vpn, rw) ==
    \E shared \in SharedOutcomes(mapcounts, PteOf(current.pagetable, vpn).pfn) :
        LET h == handle_page_fault(mapcounts, current.pagetable, vpn, rw, shared)
        IN  /\ mapcounts' = h.mc
            /\ current' = [current EXCEPT !.pagetable = h.pt]
            /\ last' = Call("fault", vpn, rw, h.ret, PteOf(h.pt, vpn).pfn, h.path)
            /\ history' = [history EXCEPT ![current.id][vpn] =
                             FaultHistory(@, h.path, rw)]
            /\ UNCHANGED << tlb, processes, ptbr, nprocs >>

\* one memory access of the driver: TLB, then the pagetable walk (the result
\* is cached), then the fault handler and one more walk
Translate(vpn, rw) ==
    LET lk == lookup_tlb(tlb, vpn, rw)
        w  == Walk(ActiveTable, vpn, rw)
    IN  IF lk.hit
        THEN /\ last' = Call("translate", vpn, rw, TRUE, lk.pfn, "tlb_hit")
             /\ UNCHANGED << mapcounts, tlb, current, processes, ptbr, nprocs,
                             history >>
        ELSE IF w.ok
        THEN /\ tlb' = insert_tlb(tlb, vpn, rw, w.pfn)
             /\ last' = Call("translate", vpn, rw, TRUE, w.pfn, "pt_hit")
             /\ UNCHANGED << mapcounts, current, processes, ptbr, nprocs,
                             history >>
        ELSE \E shared \in
                 SharedOutcomes(mapcounts, PteOf(current.pagetable, vpn).pfn) :
             LET h  == handle_page_fault(mapcounts, current.pagetable, vpn, rw,
                                         shared)
                 w2 == Walk(h.pt, vpn, rw)
             IN  /\ mapcounts' = h.mc
                 /\ current' = [current EXCEPT !.pagetable = h.pt]
                 /\ tlb' = IF h.ret /\ w2.ok
                           THEN insert_tlb(tlb, vpn, rw, w2.pfn) ELSE tlb
                 /\ last' = Call("translate", vpn, rw, h.ret /\ w2.ok,
                                 IF h.ret /\ w2.ok THEN w2.pfn ELSE 0, h.path)
                 /\ history' = [history EXCEPT ![current.id][vpn] =
                                  FaultHistory(@, h.path, rw)]
                 /\ UNCHANGED << processes, ptbr, nprocs >>

\* lookup_tlb(vpn, rw) called on its own; it changes nothing
LookupTlb(vpn, rw) ==
    LET lk == lookup_tlb(tlb, vpn, rw)
    IN  /\ last' = Call("lookup", vpn, rw, lk.hit, lk.pfn, "none")
        /\ UNCHANGED << mapcounts, tlb, current, processes, ptbr, nprocs,
                        history >>

\* switch_process(pid), the target found in the ready queue
Resume(pid) ==
    LET i == FindReady(processes, pid)
    IN  /\ i # 0
        /\ tlb' = flush_tlb(tlb)
        /\ processes' = Append(Unlink(processes, i), current)
        /\ current' = processes[i]
        /\ ptbr' = processes[i].id
        /\ last' = Call("switch", pid, 0, TRUE, 0, "resume")
        /\ UNCHANGED << mapcounts, nprocs, history >>

\* switch_process(pid), no process with this pid in the ready queue
Fork(pid) ==
    /\ FindReady(processes, pid) = 0
    /\ nprocs < MaxProcs
    /\ mapcounts' = ForkMapcounts(mapcounts, current.pagetable, 0)
    /\ tlb' = flush_tlb(tlb)
    /\ processes' = Append(processes,
                       [current EXCEPT
                          !.pagetable = ForkParentTable(current.pagetable)])
    /\ current' = [id |-> nprocs, pid |-> pid,
                   pagetable |-> ForkChildTable(current.pagetable)]
    /\ ptbr' = nprocs
    /\ nprocs' = nprocs + 1
    /\ last' = Call("switch", pid, 0, TRUE, 0, "fork")
    /\ history' =
          LET shared == [v \in VPNs |->
                           IF PteOf(current.pagetable, v).valid
                           THEN [history[current.id][v] EXCEPT !.forked = TRUE]
                           ELSE history[current.id][v]]
          IN  [history EXCEPT ![current.id] = shared, ![nprocs] = shared]

SwitchProcess(pid) == Resume(pid) \/ Fork(pid)

\* the driver makes at most MaxSteps calls
Tick == steps < MaxSteps /\ steps' = steps + 1

\* one call of the driver
Next ==
    \/ \E vpn \in VPNs, rw \in AllocModes : Tick /\ AllocPage(vpn, rw)
    \/ \E vpn \in VPNs : Tick /\ FreePage(vpn)
    \/ \E vpn \in VPNs, rw \in AccessModes : Tick /\ Translate(vpn, rw)
    \/ \E vpn \in VPNs, rw \in AccessModes : Tick /\ HandlePageFault(vpn, rw)
    \/ \E pid \in PIDs : Tick /\ Resume(pid)
    \/ \E pid \in PIDs : Tick /\ Fork(pid)

Spec == Init /\ [][Next]_vars

(* ---------------- lookup_tlb on its own --------------------------------- *)
\* the entries a TLB slot can hold: a cleared slot (free_page leaves the vpn
\* behind, the flush zeroes it) or a translation cached for a read or a write
TlbSlots ==
    {[ZeroTLB EXCEPT !.vpn = v] : v \in VPNs}
    \cup {[valid |-> TRUE, rw |-> a, vpn |-> v, pfn |-> f, private |-> 0] :
             a \in AccessModes, v \in VPNs, f \in Frames}

InitTlb ==
    /\ mapcounts = [f \in Frames |-> 0]
    /\ tlb \in [1 .. NR_TLB_ENTRIES -> TlbSlots]
    /\ current = [id |-> 0, pid |-> 0, pagetable |-> EmptyPagetable]
    /\ processes = << >>
    /\ ptbr = 0
    /\ nprocs = 1
    /\ last = Call("init", 0, 0, TRUE, 0, "none")
    /\ history = [id \in ProcIds |-> [v \in VPNs |-> NoHistory]]
    /\ steps = 0

NextTlb ==
    /\ \E vpn \in VPNs, rw \in AllocModes : LookupTlb(vpn, rw)
    /\ UNCHANGED steps

SpecTlb == InitTlb /\ [][NextTlb]_vars

(* ======================= properties ===================================== *)
\* every process there is: the running one and those in the ready queue
Live == {current} \cup {processes[i] : i \in 1 .. Len(processes)}

\* this step ran handle_page_fault (called directly, or by a translation that
\* missed the TLB and the pagetable)
HandlerRan ==
    \/ last'.op = "fault"
    \/ last'.op = "translate" /\ last'.path \notin {"tlb_hit", "pt_hit"}

\* the faulting entry as it was before the step
FaultPte == PteOf(current.pagetable, last'.arg)

\* the fault of this step is a write to a read-only entry of write intent
\* whose frame is mapped more than once
CowCopyCase ==
    /\ HandlerRan
    /\ BitAnd(last'.rw, ACCESS_WRITE) # 0
    /\ FaultPte.valid
    /\ FaultPte.rw = ACCESS_READ
    /\ BitAnd(FaultPte.private, ACCESS_WRITE) # 0
    /\ FaultPte.pfn \in Frames
    /\ UGt1(mapcounts[FaultPte.pfn])

\* valid, rw and pfn of every entry of every process are what they were
SamePteFields ==
    /\ processes' = processes
    /\ current'.id = current.id
    /\ \A v \in VPNs :
          LET p == PteOf(current.pagetable, v)
              q == PteOf(current'.pagetable, v)
          IN  p.valid = q.valid /\ p.rw = q.rw /\ p.pfn = q.pfn

\* C1: every write access that translation resolves (TLB hit, pagetable hit
\* or resolved fault) lands on a frame whose mapcount is exactly 1.
C1_WriteIsolation ==
    (last.op = "translate" /\ last.rw = ACCESS_WRITE /\ last.ret)
        => (last.pfn \in Frames /\ mapcounts[last.pfn] = 1)

\* C2: refcount conservation: mapcounts[f] is the number of (process, entry)
\* pairs, over all processes, whose entry is valid and maps f.
C2_RefcountConservation ==
    \A f \in Frames :
        mapcounts[f] =
            Cardinality({x \in ProcIds \X VPNs :
                            \E p \in Live :
                                /\ p.id = x[1]
                                /\ PteOf(p.pagetable, x[2]).valid
                                /\ PteOf(p.pagetable, x[2]).pfn = f})

\* C3: right after every switch_process call no TLB entry is valid.
C3_FullFlush ==
    last.op = "switch" => \A i \in 1 .. NR_TLB_ENTRIES : ~ tlb[i].valid

\* C4: after every completed operation every valid TLB entry (vpn, pfn)
\* agrees with the running process's pagetable.
C4_TlbSubset ==
    \A i \in 1 .. NR_TLB_ENTRIES :
        tlb[i].valid =>
            /\ PteOf(current.pagetable, tlb[i].vpn).valid
            /\ PteOf(current.pagetable, tlb[i].vpn).pfn = tlb[i].pfn

\* C5: a fork leaves every entry that was valid in the parent valid in parent
\* and child with the same pfn, read-only, with the same private value (the
\* parent's rw before the fork if private was unset, its private otherwise),
\* and the frame's mapcount one higher; entries invalid in the parent are
\* invalid in the child.
C5_ForkPostcondition ==
    [][ (last'.op = "switch" /\ last'.path = "fork") =>
          \A v \in VPNs :
             LET p == PteOf(current.pagetable, v)
                 a == PteOf(processes'[Len(processes')].pagetable, v)
                 c == PteOf(current'.pagetable, v)
                 priv == IF p.private = 0 THEN p.rw ELSE p.private
             IN  /\ p.valid =>
                      /\ a.valid /\ c.valid
                      /\ a.pfn = p.pfn /\ c.pfn = p.pfn
                      /\ a.rw = ACCESS_READ /\ c.rw = ACCESS_READ
                      /\ a.private = priv /\ c.private = priv
                      /\ p.pfn \in Frames
                      /\ mapcounts'[p.pfn] = mapcounts[p.pfn] + 1
                 /\ ~ p.valid => ~ c.valid ]_vars

\* what C6 promises of a copy: the handler succeeds, the entry maps another
\* frame that was free and now has mapcount 1, is read-write, the old frame's
\* mapcount is one lower and no other process's pagetable changed
CowCopied ==
    LET q == PteOf(current'.pagetable, last'.arg)
    IN  /\ last'.ret
        /\ q.valid
        /\ q.pfn # FaultPte.pfn
        /\ q.pfn \in Frames
        /\ mapcounts[q.pfn] = 0
        /\ mapcounts'[q.pfn] = 1
        /\ q.rw = ACCESS_READ + ACCESS_WRITE
        /\ mapcounts'[FaultPte.pfn] = UDec(mapcounts[FaultPte.pfn])
        /\ processes' = processes

\* C6 as claimed: a write fault on a valid read-only entry whose private has
\* write and whose frame has mapcount > 1 always copies.
C6_CowCopyAlways == [][ CowCopyCase => CowCopied ]_vars

\* C6: a write fault on a valid read-only entry whose private has write and
\* whose frame has mapcount > 1 copies, provided some frame is free: the
\* handler succeeds, the entry maps another frame that was free and now has
\* mapcount 1, is read-write, the old frame's mapcount is one lower and every
\* other process's entry is unchanged.
C6_CowCopy ==
    [][ (CowCopyCase /\ FirstFree(mapcounts) # NO_PFN) => CowCopied ]_vars

\* a copy has just happened while another process still maps the old frame
\* read-only at that vpn
C6_Witness ==
    /\ last.op \in {"fault", "translate"}
    /\ last.path = "cow_copy"
    /\ BitAnd(PteOf(current.pagetable, last.arg).rw, ACCESS_WRITE) # 0
    /\ mapcounts[PteOf(current.pagetable, last.arg).pfn] = 1
    /\ \E i \in 1 .. Len(processes) :
          LET o == PteOf(processes[i].pagetable, last.arg)
          IN  /\ o.valid /\ o.rw = ACCESS_READ
              /\ o.pfn # PteOf(current.pagetable, last.arg).pfn

\* the fault of this step needs a new frame: first touch of an invalid entry,
\* or the copy of a shared frame
NeedsFrame ==
    /\ HandlerRan
    /\ \/ ~ FaultPte.valid
       \/ CowCopyCase

\* C7: a fault that needs a frame when no frame is free fails, and leaves
\* every mapcount and every entry's valid, rw and pfn as they were.
C7_OomReported ==
    [][ (NeedsFrame /\ FirstFree(mapcounts) = NO_PFN) =>
          (~ last'.ret /\ mapcounts' = mapcounts /\ SamePteFields) ]_vars

\* C8: a write fault on a page that was populated read-only fails and leaves
\* the entry and all mapcounts unchanged.
C8_ProtectionViolation ==
    [][ ( /\ HandlerRan
          /\ BitAnd(last'.rw, ACCESS_WRITE) # 0
          /\ FaultPte.valid
          /\ history[current.id][last'.arg].alloc = ACCESS_READ ) =>
          ( /\ ~ last'.ret
            /\ PteOf(current'.pagetable, last'.arg) = FaultPte
            /\ mapcounts' = mapcounts ) ]_vars

\* C9: a write fault on an entry that a fork made read-only, and whose page
\* was allocated writable, is resolved.
C9_PrivateTracksIntent ==
    [][ ( /\ HandlerRan
          /\ BitAnd(last'.rw, ACCESS_WRITE) # 0
          /\ FaultPte.valid
          /\ history[current.id][last'.arg].forked
          /\ BitAnd(history[current.id][last'.arg].alloc, ACCESS_WRITE) # 0 )
          => last'.ret ]_vars

\* C10: lookup_tlb(vpn, access) hits exactly when some valid entry holds vpn
\* with every bit of access in its rw, and returns the pfn of the first such.
C10_LookupSemantics ==
    last.op = "lookup" =>
        LET m == {i \in 1 .. NR_TLB_ENTRIES :
                     /\ tlb[i].valid
                     /\ tlb[i].vpn = last.arg
                     /\ BitAnd(tlb[i].rw, last.rw) = last.rw}
        IN  /\ last.ret <=> (m # {})
            /\ m # {} =>
                 last.pfn = tlb[CHOOSE k \in m : \A j \in m : k <= j].pfn

\* C11: at most one valid TLB entry exists per vpn.
C11_NoDuplicates ==
    \A i, j \in 1 .. NR_TLB_ENTRIES :
        (tlb[i].valid /\ tlb[j].valid /\ tlb[i].vpn = tlb[j].vpn) => i = j

\* this step called alloc_page while a frame was free: directly, for a first
\* touch, or for a copy
AllocRan ==
    \/ last'.op = "alloc" /\ last'.ret
    \/ HandlerRan /\ last'.path \in {"first_touch", "cow_copy"}

\* C12: with a frame free, alloc_page takes the smallest pfn whose mapcount is
\* 0, sets its mapcount to 1, changes no other mapcount (the copy then
\* releases the old frame), and leaves the entry valid with the requested rw
\* and that pfn.
C12_SmallestFree ==
    [][ AllocRan =>
          LET f == CHOOSE g \in Frames :
                      mapcounts[g] = 0
                      /\ \A k \in Frames : mapcounts[k] = 0 => g <= k
              q == PteOf(current'.pagetable, last'.arg)
              want == IF last'.path = "cow_copy"
                      THEN ACCESS_READ + ACCESS_WRITE ELSE last'.rw
              old == IF last'.path = "cow_copy" THEN {FaultPte.pfn} ELSE {}
          IN  /\ \E g \in Frames : mapcounts[g] = 0
              /\ mapcounts'[f] = 1
              /\ \A g \in Frames \ ({f} \cup old) : mapcounts'[g] = mapcounts[g]
              /\ q.valid /\ q.rw = want /\ q.pfn = f
              /\ last'.op = "alloc" => last'.pfn = f ]_vars

\* alloc_page has just taken frame 0 although frame 1 was in use: the lower
\* frame had been released and is handed out again
C12_Witness ==
    /\ last.op = "alloc"
    /\ last.ret
    /\ last.pfn = 0
    /\ mapcounts[1] >= 1
    /\ PteOf(current.pagetable, last.arg).pfn = 0

\* C13: free_page on an entry that is invalid changes no mapcount, no TLB
\* entry and no pagetable entry; and after any free_page the entry is
\* invalid, so a second free_page in a row is that no-op.
C13_FreeIdempotent ==
    [][ last'.op = "free" =>
          /\ ~ PteOf(current'.pagetable, last'.arg).valid
          /\ ~ PteOf(current.pagetable, last'.arg).valid =>
                /\ mapcounts' = mapcounts
                /\ tlb' = tlb
                /\ current' = current
                /\ processes' = processes ]_vars

\* free_page has just been called on an invalid entry of an existing
\* page-table page while frames and TLB entries were in use
C13_Witness ==
    /\ last.op = "free"
    /\ last.path = "nothing"
    /\ HasPd(current.pagetable, last.arg)
    /\ \E f \in Frames : mapcounts[f] >= 1
    /\ \E i \in 1 .. NR_TLB_ENTRIES : tlb[i].valid

\* the identities of the processes in the ready queue, in queue order
QueueIds == [i \in 1 .. Len(processes) |-> processes[i].id]

\* C14: one process is running, it is not in the ready queue, and every other
\* process ever created is in the ready queue exactly once.
C14_ProcessStates ==
    /\ \A i, j \in 1 .. Len(processes) : QueueIds[i] = QueueIds[j] => i = j
    /\ \A i \in 1 .. Len(processes) : QueueIds[i] # current.id
    /\ {current.id} \cup {QueueIds[i] : i \in 1 .. Len(processes)}
          = 0 .. (nprocs - 1)

\* three processes exist and one of the two that waited has just been resumed
C14_Witness ==
    /\ last.op = "switch"
    /\ last.path = "resume"
    /\ nprocs = 3
    /\ Len(processes) = 2

\* C15 as stated: switch_process(pid) creates a process only when no live
\* process, in the ready queue or running, has that pid.
C15_ForkOnlyUnknown ==
    [][ nprocs' = nprocs + 1 => \A p \in Live : p.pid # last'.arg ]_vars

\* C15: switch_process(pid) creates a process only when no process in the
\* ready queue has that pid; the pid of the running process is not looked at.
C15_ForkOnlyUnqueued ==
    [][ /\ nprocs' = nprocs + 1 =>
            /\ last'.op = "switch"
            /\ \A i \in 1 .. Len(processes) : processes[i].pid # last'.arg
        /\ ( /\ last'.op = "switch"
             /\ \E i \in 1 .. Len(processes) : processes[i].pid = last'.arg ) =>
            nprocs' = nprocs ]_vars

\* switch_process was called with the pid of the running process and forked a
\* second process with that pid
C15_Witness ==
    /\ last.op = "switch"
    /\ last.path = "fork"
    /\ current.pid = last.arg
    /\ \E i \in 1 .. Len(processes) : processes[i].pid = current.pid

\* this step was a call of switch_process
Switched == last'.op = "switch"

C17_SatisfiableAccess ==
    [][ ( /\ last'.op = "fault"
          /\ FaultPte.valid
          /\ BitAnd(FaultPte.rw, last'.rw) = last'.rw ) =>
          /\ last'.ret
          /\ mapcounts' = mapcounts
          /\ tlb' = tlb
          /\ current' = current
          /\ processes' = processes ]_vars

\* C18: a write fault on a valid read-only entry whose private holds the
\* write bit and whose frame has mapcount 1 succeeds with the same pfn, rw
\* read-write, every mapcount and every other entry unchanged.
C18_UpgradeInPlace ==
    [][ ( /\ HandlerRan
          /\ last'.rw = ACCESS_WRITE
          /\ FaultPte.valid
          /\ FaultPte.rw = ACCESS_READ
          /\ BitAnd(FaultPte.private, ACCESS_WRITE) # 0
          /\ FaultPte.pfn \in Frames
          /\ mapcounts[FaultPte.pfn] = 1 ) =>
          LET q == PteOf(current'.pagetable, last'.arg)
          IN  /\ last'.ret
              /\ q = [FaultPte EXCEPT !.rw = ACCESS_READ + ACCESS_WRITE]
              /\ mapcounts' = mapcounts
              /\ \A v \in VPNs \ {last'.arg} :
                    PteOf(current'.pagetable, v) = PteOf(current.pagetable, v)
              /\ processes' = processes ]_vars

\* after a fork the sole remaining owner of a frame has just regained write
\* permission on it
C18_Witness ==
    /\ last.path = "cow_upgrade"
    /\ last.ret
    /\ last.rw = ACCESS_WRITE
    /\ nprocs >= 2
    /\ LET q == PteOf(current.pagetable, last.arg)
       IN  /\ q.valid
           /\ q.rw = ACCESS_READ + ACCESS_WRITE
           /\ q.pfn \in Frames
           /\ mapcounts[q.pfn] = 1

\* C19: switch_process(pid) with a process of that pid in the ready queue
\* unlinks exactly the first such process and makes it current, appends the
\* old current, creates no process, and changes no entry of any pagetable and
\* no mapcount.
C19_ResumeUntouched ==
    [][ ( /\ last'.op = "switch"
          /\ \E i \in 1 .. Len(processes) : processes[i].pid = last'.arg ) =>
          LET i == CHOOSE k \in 1 .. Len(processes) :
                      /\ processes[k].pid = last'.arg
                      /\ \A m \in 1 .. (k - 1) : processes[m].pid # last'.arg
          IN  /\ current' = processes[i]
              /\ Len(processes') = Len(processes)
              /\ \A k \in 1 .. (Len(processes) - 1) :
                    processes'[k] = processes[IF k < i THEN k ELSE k + 1]
              /\ processes'[Len(processes)] = current
              /\ nprocs' = nprocs
              /\ mapcounts' = mapcounts ]_vars

\* a process sharing a frame with the one that ran has just been resumed
C19_Witness ==
    /\ last.op = "switch"
    /\ last.path = "resume"
    /\ \E f \in Frames : mapcounts[f] >= 2
    /\ \E v \in VPNs : PteOf(current.pagetable, v).valid

\* C20: every valid entry of every process has a pfn in [0, NR_PAGEFRAMES)
\* whose mapcount is at least 1.
C20_ValidPointsAtFrame ==
    \A p \in Live : \A v \in VPNs :
        PteOf(p.pagetable, v).valid =>
            /\ PteOf(p.pagetable, v).pfn \in Frames
            /\ mapcounts[PteOf(p.pagetable, v).pfn] # 0

====
